---- MODULE Spec2Model ----
(***************************************************************************)
(* Model of the model-serving core of Eva04IA:                             *)
(*   - the persisted registry models/metadata.json and the artifact files  *)
(*     under models/ (src/src/train/save_model.py, src/src/train/          *)
(*     rollback.py, src/src/serving/api_endpoints_only.py);                *)
(*   - the serving process with its module-level MODEL and the handlers    *)
(*     of /predict, /health, /model/activate, /model/reload and /retrain   *)
(*     (FastAPI runs these "def" handlers on worker threads, so their      *)
(*     steps interleave);                                                  *)
(*   - the training job (save_model.main) and the rollback tool, which are *)
(*     separate operating-system processes working on the same files.      *)
(***************************************************************************)
EXTENDS Integers, Sequences, FiniteSets, TLC

\* ------------------------------------------------------------------ bounds
\* Training runs that may be launched after the initial state.
MaxRuns == 2
\* Seconds the UTC clock may advance (the version is the clock's second).
MaxClock == 2
\* API requests and rollback commands that may be issued.
MaxRequests == 2
\* Rows of a table handed to the feature deriver.
MaxRows == 15

\* ------------------------------------------------------- program constants
\* Python's None: registry["current"] of an empty registry, MODEL before a load.
None == 0
\* MODEL_PATH, the legacy artifact models/modelo_demanda_v1.joblib, as a path.
MODEL_PATH == 0

Runs == 1..MaxRuns
\* The pipeline fitted by run r; Pipeline(0) is the one of the run that made
\* an initially trained deployment.
Pipeline(r) == r + 1
\* Worker threads of the serving process that run the /model/activate handler.
ActThreads == {"t1"}
Versions == 1..MaxClock
\* models/modelo_demanda_<version>.joblib is path <version>; path 0 is MODEL_PATH.
Paths == {MODEL_PATH} \cup Versions

\* -------------------------------------------------------------- file values
NoFile == [st |-> "absent", pipeline |-> None]
\* A file opened for writing (truncated) whose content is not yet complete.
TornFile == [st |-> "torn", pipeline |-> None]
Dumped(p) == [st |-> "ok", pipeline |-> p]

EmptyRegistry == [versions |-> <<>>, current |-> None]
NoMeta == [st |-> "absent", versions |-> <<>>, current |-> None]
TornMeta == [st |-> "torn", versions |-> <<>>, current |-> None]
\* Mutant of Written: the document is written without the current pointer.
WrittenWithoutCurrent(registry) ==
  [st |-> "ok", versions |-> registry.versions, current |-> None]

Written(registry) ==
  [st |-> "ok", versions |-> registry.versions, current |-> registry.current]

VARIABLES
  clock,      \* datetime.utcnow() in seconds
  meta,       \* content of models/metadata.json
  files,      \* content of each artifact file under models/
  MODEL,      \* the serving process's module-level MODEL (None or a pipeline)
  api,        \* "down" before the module is imported, "up" after
  train,      \* per training run: position and locals of save_model.main
  act,        \* per worker thread: the /model/activate handler
  rel,        \* the /model/reload handler
  pred,       \* the /predict handler
  requests,   \* API requests and rollback commands started so far
  cli,        \* the rollback tool
  seen,       \* history: version ids, and ordered pairs of them, ever persisted
  df          \* the table a request handler or the training flow works on

vars == <<clock, meta, files, MODEL, api, train, act, rel, pred, requests, cli, seen, df>>

\* --------------------------------------------------------- registry readers
\* api_endpoints_only._load_registry: a missing or unparseable file reads as empty.
api_load_registry(f) ==
  IF f.st = "ok" THEN [versions |-> f.versions, current |-> f.current]
  ELSE EmptyRegistry

\* save_model._load_registry: the same behaviour.
train_load_registry(f) ==
  IF f.st = "ok" THEN [versions |-> f.versions, current |-> f.current]
  ELSE EmptyRegistry

\* rollback._load_registry: a missing file reads as empty, an unparseable one raises.
rollback_load_registry(f) ==
  IF f.st = "ok"
  THEN [raised |-> FALSE, versions |-> f.versions, current |-> f.current]
  ELSE IF f.st = "absent"
  THEN [raised |-> FALSE, versions |-> <<>>, current |-> None]
  ELSE [raised |-> TRUE, versions |-> <<>>, current |-> None]

\* next((v for v in versions if v.get("version") == target), None): index or 0.
RECURSIVE MatchFrom(_, _, _)
MatchFrom(versions, target, i) ==
  IF i > Len(versions) THEN 0
  ELSE IF versions[i].version = target THEN i
  ELSE MatchFrom(versions, target, i + 1)

\* Mutant of Match: the lookup takes the first entry, whatever its version.
MatchAny(versions, target) == IF Len(versions) > 0 THEN 1 ELSE 0

Match(versions, target) == MatchFrom(versions, target, 1)

\* joblib.load of an existing file: the pipeline, or None where the caller's
\* except clause turns the raised error into "nothing loaded".
joblib_load(file) == IF file.st = "ok" THEN file.pipeline ELSE None

\* The loop of _load_model_from_registry over registry["versions"]: the first
\* entry named by current whose file exists decides (load it, or None when its
\* deserialization raises); entries whose file is missing are skipped.
RECURSIVE LoadFromVersions(_, _, _)
LoadFromVersions(versions, current, fs) ==
  IF versions = <<>> THEN [found |-> FALSE, m |-> None]
  ELSE LET v == Head(versions) IN
       IF v.version = current /\ fs[v.model_path].st # "absent"
       THEN [found |-> TRUE, m |-> joblib_load(fs[v.model_path])]
       ELSE LoadFromVersions(Tail(versions), current, fs)

\* Mutant of load_model_from_registry: the legacy MODEL_PATH is tried first.
load_model_legacy_first(f, fs) ==
  LET registry == api_load_registry(f)
      r == IF registry.current # None
           THEN LoadFromVersions(registry.versions, registry.current, fs)
           ELSE [found |-> FALSE, m |-> None]
  IN IF fs[MODEL_PATH].st # "absent" THEN joblib_load(fs[MODEL_PATH])
     ELSE IF r.found THEN r.m
     ELSE None

\* _load_model_from_registry: registry current first, then the legacy MODEL_PATH.
load_model_from_registry(f, fs) ==
  LET registry == api_load_registry(f)
      r == IF registry.current # None
           THEN LoadFromVersions(registry.versions, registry.current, fs)
           ELSE [found |-> FALSE, m |-> None]
  IN IF r.found THEN r.m
     ELSE IF fs[MODEL_PATH].st # "absent" THEN joblib_load(fs[MODEL_PATH])
     ELSE None

\* ------------------------------------------------------------------ history
VersionIds(versions) == {versions[i].version : i \in 1..Len(versions)}
OrderedPairs(versions) ==
  {<<versions[p[1]].version, versions[p[2]].version>> :
     p \in {q \in (1..Len(versions)) \X (1..Len(versions)) : q[1] < q[2]}}

\* What a completed write of `registry` adds to the history.
Persist(registry) ==
  [ids |-> seen.ids \cup VersionIds(registry.versions),
   pairs |-> seen.pairs \cup OrderedPairs(registry.versions)]

\* ----------------------------------------------------------------- initial
\* No table is being worked on.
NoTable == [stage |-> "none"]

IdleTrain == [pc |-> "idle", by |-> "none", at |-> "none", version |-> None,
              registry |-> EmptyRegistry, prior |-> NoMeta]
IdleAct == [pc |-> "idle", version |-> None, registry |-> EmptyRegistry,
            m |-> None, art |-> None, resp |-> "none", prior |-> NoMeta,
            failed |-> FALSE]
IdleRel == [pc |-> "idle", m |-> None, resp |-> "none"]
IdlePred == [pc |-> "idle", records |-> "none", m1 |-> None, reached |-> FALSE,
             resp |-> "none"]
IdleCli == [pc |-> "idle", cmd |-> "none", target |-> None, src_path |-> None,
            registry |-> EmptyRegistry, result |-> "none", prior |-> NoMeta]

\* The entry save_model.main appends: version, model_path (saved_at and metrics
\* play no part in loading or activation).
Entry(version) == [version |-> version, model_path |-> version]

\* registry.setdefault("versions", []).append(entry); registry["current"] = version
AppendEntry(registry, version) ==
  [versions |-> Append(registry.versions, Entry(version)), current |-> version]

\* A fresh checkout: nothing trained yet.
Fresh ==
  /\ clock = 1
  /\ meta = NoMeta
  /\ files = [p \in Paths |-> NoFile]
  /\ seen = [ids |-> {}, pairs |-> {}]

\* A deployment on which save_model.main ran once, to completion, in second 1:
\* versioned artifact, legacy artifact and a registry with that one version.
Trained ==
  /\ clock = 2
  /\ meta = Written(AppendEntry(EmptyRegistry, 1))
  /\ files = [p \in Paths |-> IF p \in {1, MODEL_PATH} THEN Dumped(Pipeline(0)) ELSE NoFile]
  /\ seen = [ids |-> {1}, pairs |-> {}]

\* No process has started: the serving module is not imported, no training
\* run, request or rollback command is under way.
Quiet ==
  /\ MODEL = None
  /\ api = "down"
  /\ train = [r \in Runs |-> IdleTrain]
  /\ act = [h \in ActThreads |-> IdleAct]
  /\ rel = IdleRel
  /\ pred = IdlePred
  /\ requests = 0
  /\ cli = IdleCli

Init ==
  /\ Fresh \/ Trained
  /\ Quiet
  /\ df = NoTable

\* The clock advances by a second.  Only save_model.main reads it, when it
\* stamps the version, so its advance is observed only with a run about to.
Tick ==
  /\ clock < MaxClock
  /\ \E r \in Runs : train[r].pc = "fit"
  /\ clock' = clock + 1
  /\ UNCHANGED <<meta, files, MODEL, api, train, act, rel, pred, requests, cli, seen, df>>


\* ------------------------------------------------- training job (save_model)
\* `python -m src.train.save_model` from the command line.
TrainMain(r) ==
  /\ train[r].pc = "idle"
  /\ r > 1 => train[r - 1].pc # "idle"
  /\ train' = [train EXCEPT ![r].pc = "fit", ![r].by = "main"]
  /\ UNCHANGED <<clock, meta, files, MODEL, api, act, rel, pred, requests, cli, seen, df>>

\* POST /retrain: the background task starts save_model in a new process and
\* the handler answers "started"; nothing of the serving process changes.
Retrain(r) ==
  /\ api = "up"
  /\ requests < MaxRequests
  /\ requests' = requests + 1
  /\ train[r].pc = "idle"
  /\ r > 1 => train[r - 1].pc # "idle"
  /\ train' = [train EXCEPT ![r].pc = "fit", ![r].by = "retrain"]
  /\ UNCHANGED <<clock, meta, files, MODEL, api, act, rel, pred, cli, seen, df>>

\* ejecutar_pipeline returns the fitted pipeline (then the version is stamped
\* from the clock) or None (then main returns).
TrainFit(r) ==
  /\ train[r].pc = "fit"
  /\ \/ train' = [train EXCEPT ![r].pc = "dumpV", ![r].version = clock]
     \/ train' = [train EXCEPT ![r].pc = "done", ![r].at = "fit"]
  /\ UNCHANGED <<clock, meta, files, MODEL, api, act, rel, pred, requests, cli, seen, df>>

\* joblib.dump(pipeline, ruta_versioned): the file is opened (truncated) ...
TrainDumpVersionedOpen(r) ==
  /\ train[r].pc = "dumpV"
  /\ files' = [files EXCEPT ![train[r].version] = TornFile]
  /\ train' = [train EXCEPT ![r].pc = "dumpVw"]
  /\ UNCHANGED <<clock, meta, MODEL, api, act, rel, pred, requests, cli, seen, df>>

\* ... and then written.
TrainDumpVersionedWrite(r) ==
  /\ train[r].pc = "dumpVw"
  /\ files' = [files EXCEPT ![train[r].version] = Dumped(Pipeline(r))]
  /\ train' = [train EXCEPT ![r].pc = "dumpL"]
  /\ UNCHANGED <<clock, meta, MODEL, api, act, rel, pred, requests, cli, seen, df>>

\* joblib.dump(pipeline, ruta_compatible): the legacy file, opened ...
TrainDumpLegacyOpen(r) ==
  /\ train[r].pc = "dumpL"
  /\ files' = [files EXCEPT ![MODEL_PATH] = TornFile]
  /\ train' = [train EXCEPT ![r].pc = "dumpLw"]
  /\ UNCHANGED <<clock, meta, MODEL, api, act, rel, pred, requests, cli, seen, df>>

\* ... and then written.
TrainDumpLegacyWrite(r) ==
  /\ train[r].pc = "dumpLw"
  /\ files' = [files EXCEPT ![MODEL_PATH] = Dumped(Pipeline(r))]
  /\ train' = [train EXCEPT ![r].pc = "load"]
  /\ UNCHANGED <<clock, meta, MODEL, api, act, rel, pred, requests, cli, seen, df>>

\* registry = _load_registry(ruta_meta); append the entry; current = version.
TrainLoadRegistry(r) ==
  /\ train[r].pc = "load"
  /\ train' = [train EXCEPT
       ![r].pc = "save",
       ![r].registry = AppendEntry(train_load_registry(meta), train[r].version)]
  /\ UNCHANGED <<clock, meta, files, MODEL, api, act, rel, pred, requests, cli, seen, df>>

\* _save_registry: open(ruta_meta, "w") truncates the file ...
TrainSaveOpen(r) ==
  /\ train[r].pc = "save"
  /\ meta' = TornMeta
  /\ train' = [train EXCEPT ![r].pc = "saving", ![r].prior = meta]
  /\ UNCHANGED <<clock, files, MODEL, api, act, rel, pred, requests, cli, seen, df>>

\* Mutant of TrainSaveWrite: the serving process reloads the model as soon as
\* the run has registered its version.
TrainSaveWriteReloads(r) ==
  /\ train[r].pc = "saving"
  /\ meta' = Written(train[r].registry)
  /\ seen' = Persist(train[r].registry)
  /\ train' = [train EXCEPT ![r].pc = "done", ![r].at = "saved",
                            ![r].registry = EmptyRegistry, ![r].prior = NoMeta]
  /\ MODEL' = IF api = "up" THEN load_model_from_registry(meta', files) ELSE MODEL
  /\ UNCHANGED <<clock, files, api, act, rel, pred, requests, cli, df>>

\* ... and json.dump writes the registry.
TrainSaveWrite(r) ==
  /\ train[r].pc = "saving"
  /\ meta' = Written(train[r].registry)
  /\ seen' = Persist(train[r].registry)
  /\ train' = [train EXCEPT ![r].pc = "done", ![r].at = "saved",
                            ![r].registry = EmptyRegistry, ![r].prior = NoMeta]
  /\ UNCHANGED <<clock, files, MODEL, api, act, rel, pred, requests, cli, df>>

\* The run stops where it is (an exception of the pipeline or of a write, or
\* the process is killed); nothing is cleaned up.
TrainStop(r) ==
  /\ train[r].pc \in {"fit", "dumpV", "dumpVw", "dumpL", "dumpLw", "load", "save", "saving"}
  /\ train' = [train EXCEPT ![r].pc = "stopped", ![r].at = train[r].pc,
                            ![r].registry = EmptyRegistry, ![r].prior = NoMeta]
  /\ UNCHANGED <<clock, meta, files, MODEL, api, act, rel, pred, requests, cli, seen, df>>

Training ==
  \E r \in Runs :
    \/ TrainMain(r) \/ Retrain(r) \/ TrainFit(r)
    \/ TrainDumpVersionedOpen(r) \/ TrainDumpVersionedWrite(r)
    \/ TrainDumpLegacyOpen(r) \/ TrainDumpLegacyWrite(r)
    \/ TrainLoadRegistry(r) \/ TrainSaveOpen(r) \/ TrainSaveWrite(r)
    \/ TrainStop(r)


\* ---------------------------------------------------------- serving process
\* reload_model(): MODEL = _load_model_from_registry(); return MODEL.
\* The new value of MODEL is whatever the load returned, None included,
\* whatever the previous value was.
reload_model(previous, loaded) == loaded

\* Import of the module: MODEL = None, then reload_model() before any request.
Startup ==
  /\ api = "down"
  /\ api' = "up"
  /\ MODEL' = reload_model(MODEL, load_model_from_registry(meta, files))
  /\ UNCHANGED <<clock, meta, files, train, act, rel, pred, requests, cli, seen, df>>

\* GET /health: the answer in the current state.
health == [status |-> "ok", model_loaded |-> MODEL # None]

\* POST /model/activate, lines 377-382: read the registry and look the version
\* up; 404 when it is absent, else set current in the local copy.
ActivateLookup(h, version) ==
  /\ api = "up"
  /\ requests < MaxRequests
  /\ requests' = requests + 1
  /\ act[h].pc = "idle"
  /\ LET registry == api_load_registry(meta) IN
     IF Match(registry.versions, version) = 0
     THEN act' = [act EXCEPT ![h] = [IdleAct EXCEPT !.version = version, !.resp = "404"]]
     ELSE act' = [act EXCEPT ![h] = [IdleAct EXCEPT
                    !.pc = "save", !.version = version,
                    !.registry = [registry EXCEPT !.current = version]]]
  /\ UNCHANGED <<clock, meta, files, MODEL, api, train, rel, pred, cli, seen, df>>

\* _save_registry: open(METADATA_PATH, "w") truncates the file ...
ActivateSaveOpen(h) ==
  /\ act[h].pc = "save"
  /\ meta' = TornMeta
  /\ act' = [act EXCEPT ![h].pc = "saving", ![h].prior = meta]
  /\ UNCHANGED <<clock, files, MODEL, api, train, rel, pred, requests, cli, seen, df>>

\* ... and json.dump writes the registry.
ActivateSaveWrite(h) ==
  /\ act[h].pc = "saving"
  /\ meta' = Written(act[h].registry)
  /\ seen' = Persist(act[h].registry)
  /\ act' = [act EXCEPT ![h].pc = "reload"]
  /\ UNCHANGED <<clock, files, MODEL, api, train, rel, pred, requests, cli, df>>

\* _save_registry's except clause: the open or the write raised (disk full,
\* permissions); the error is logged and the handler goes on to reload.
ActivateSaveRaises(h) ==
  /\ act[h].pc \in {"save", "saving"}
  /\ act' = [act EXCEPT ![h].pc = "reload", ![h].failed = TRUE,
                        ![h].prior = IF act[h].pc = "save" THEN meta ELSE @]
  /\ UNCHANGED <<clock, meta, files, MODEL, api, train, rel, pred, requests, cli, seen, df>>

\* History for the activate handler: what loading the artifact of the named
\* version (its entry's model_path) gives at the time of the load, None when
\* the file is missing or does not deserialize.
NamedArtifact(registry, version, fs) ==
  LET i == Match(registry.versions, version) IN
  IF i = 0 THEN None ELSE joblib_load(fs[registry.versions[i].model_path])

\* reload_model, line 280, right-hand side: _load_model_from_registry().
ActivateLoad(h) ==
  /\ act[h].pc = "reload"
  /\ act' = [act EXCEPT ![h].pc = "assign",
                        ![h].m = load_model_from_registry(meta, files),
                        ![h].art = NamedArtifact(act[h].registry, act[h].version, files)]
  /\ UNCHANGED <<clock, meta, files, MODEL, api, train, rel, pred, requests, cli, seen, df>>

\* reload_model, lines 280-281: the assignment to MODEL and the return; then
\* lines 386-388: 500 when nothing was loaded, else "activated".
ActivateAssign(h) ==
  /\ act[h].pc = "assign"
  /\ MODEL' = reload_model(MODEL, act[h].m)
  /\ act' = [act EXCEPT ![h] = [IdleAct EXCEPT
                 !.version = act[h].version,
                 !.resp = IF MODEL' = None THEN "500" ELSE "activated"]]
  /\ UNCHANGED <<clock, meta, files, api, train, rel, pred, requests, cli, seen, df>>

\* POST /model/reload: the load ...
ReloadLoad ==
  /\ api = "up"
  /\ requests < MaxRequests
  /\ requests' = requests + 1
  /\ rel.pc = "idle"
  /\ rel' = [pc |-> "assign", m |-> load_model_from_registry(meta, files), resp |-> "none"]
  /\ UNCHANGED <<clock, meta, files, MODEL, api, train, act, pred, cli, seen, df>>

\* ... and the assignment; 500 when nothing was loaded, else "reloaded".
ReloadAssign ==
  /\ rel.pc = "assign"
  /\ MODEL' = reload_model(MODEL, rel.m)
  /\ rel' = [IdleRel EXCEPT !.resp = IF MODEL' = None THEN "500" ELSE "reloaded"]
  /\ UNCHANGED <<clock, meta, files, api, train, act, pred, requests, cli, seen, df>>

\* Mutant of PredictCheck: the MODEL is None check (503) is missing.
PredictCheckUnguarded(records) ==
  /\ api = "up"
  /\ requests < MaxRequests
  /\ requests' = requests + 1
  /\ pred.pc = "idle"
  /\ pred' = IF records = "empty"
             THEN [IdlePred EXCEPT !.records = records, !.resp = "400"]
             ELSE [IdlePred EXCEPT !.records = records, !.m1 = MODEL, !.pc = "frame"]
  /\ UNCHANGED <<clock, meta, files, MODEL, api, train, act, rel, cli, seen, df>>

\* POST /predict, lines 291-295: the first read of the global MODEL (503 when
\* it is None), then the empty-batch check (400).
PredictCheck(records) ==
  /\ api = "up"
  /\ requests < MaxRequests
  /\ requests' = requests + 1
  /\ pred.pc = "idle"
  /\ pred' = IF MODEL = None
             THEN [IdlePred EXCEPT !.records = records, !.resp = "503"]
             ELSE IF records = "empty"
             THEN [IdlePred EXCEPT !.records = records, !.resp = "400"]
             ELSE [IdlePred EXCEPT !.records = records, !.m1 = MODEL, !.pc = "frame"]
  /\ UNCHANGED <<clock, meta, files, MODEL, api, train, act, rel, cli, seen, df>>

\* Lines 296-345: the table is built and enriched, then
\* _ensure_expected_columns(df, MODEL) reads the global MODEL a second time.
PredictEnsure ==
  /\ pred.pc = "frame"
  /\ pred' = [pred EXCEPT !.pc = "predict", !.reached = TRUE]
  /\ UNCHANGED <<clock, meta, files, MODEL, api, train, act, rel, requests, cli, seen, df>>

\* Lines 346-353: MODEL.predict(df) reads the global MODEL a third time; an
\* exception (None has no predict) is answered 400.
PredictPredict ==
  /\ pred.pc = "predict"
  /\ pred' = [pred EXCEPT !.pc = "idle", !.m1 = None,
                          !.resp = IF MODEL = None THEN "400" ELSE "200"]
  /\ UNCHANGED <<clock, meta, files, MODEL, api, train, act, rel, requests, cli, seen, df>>

Serving ==
  \/ Startup
  \/ \E h \in ActThreads :
       \/ \E version \in Versions : ActivateLookup(h, version)
       \/ ActivateSaveOpen(h) \/ ActivateSaveWrite(h) \/ ActivateSaveRaises(h)
       \/ ActivateLoad(h) \/ ActivateAssign(h)
  \/ ReloadLoad \/ ReloadAssign
  \/ \E records \in {"empty", "batch"} : PredictCheck(records)
  \/ PredictEnsure \/ PredictPredict


\* ------------------------------------------------- rollback tool (rollback.py)
\* The tool has ended: only the command, its target and its outcome remain.
CliDone(result) ==
  [IdleCli EXCEPT !.cmd = cli.cmd, !.target = cli.target, !.result = result]

\* set_current, lines 45-54: read the registry, look the target up, check that
\* its artifact exists.
set_current(cmd, target) ==
  LET registry == rollback_load_registry(meta)
      i == Match(registry.versions, target)
      done == [IdleCli EXCEPT !.cmd = cmd, !.target = target]
  IN IF registry.raised
     THEN cli' = [done EXCEPT !.result = "raised"]
     ELSE IF i = 0
     THEN cli' = [done EXCEPT !.result = "False"]
     ELSE IF files[registry.versions[i].model_path].st = "absent"
     THEN cli' = [done EXCEPT !.result = "False"]
     ELSE cli' = [done EXCEPT
                    !.pc = "copy",
                    !.src_path = registry.versions[i].model_path,
                    !.registry = [versions |-> registry.versions,
                                  current |-> registry.current]]

\* python -m src.train.rollback --to target (main, lines 97-99).
CliSetCurrent(target) ==
  /\ cli.pc = "idle"
  /\ requests < MaxRequests
  /\ requests' = requests + 1
  /\ set_current("to", target)
  /\ UNCHANGED <<clock, meta, files, MODEL, api, train, act, rel, pred, seen, df>>

\* rollback_previous, lines 74-77: idx is the 1-based position of current; 0
\* says there is no previous entry.
PreviousIndex(versions, idx) == idx - 1

\* python -m src.train.rollback --previous: rollback_previous, lines 64-77,
\* reads the registry and picks the entry before the current one.
CliRollbackPrevious ==
  /\ cli.pc = "idle"
  /\ requests < MaxRequests
  /\ requests' = requests + 1
  /\ LET registry == rollback_load_registry(meta)
         idx == Match(registry.versions, registry.current)
         done == [IdleCli EXCEPT !.cmd = "previous"]
     IN IF registry.raised
        THEN cli' = [done EXCEPT !.result = "raised"]
        ELSE IF registry.versions = <<>> \/ registry.current = None
        THEN cli' = [done EXCEPT !.result = "NoPrevious"]
        ELSE IF idx = 0
        THEN cli' = [done EXCEPT !.result = "NoPrevious"]
        ELSE IF PreviousIndex(registry.versions, idx) = 0
        THEN cli' = [done EXCEPT !.result = "NoPrevious"]
        ELSE cli' = [done EXCEPT
                       !.pc = "set",
                       !.target = registry.versions[PreviousIndex(registry.versions, idx)].version]
  /\ UNCHANGED <<clock, meta, files, MODEL, api, train, act, rel, pred, seen, df>>

\* Line 78: set_current(ruta_meta, modelos_dir, target) reads the registry anew.
CliPreviousSetCurrent ==
  /\ cli.pc = "set"
  /\ set_current("previous", cli.target)
  /\ UNCHANGED <<clock, meta, files, MODEL, api, train, act, rel, pred, requests, seen, df>>

\* Lines 55-57: shutil.copy2(src_path, dest) onto the legacy file, then
\* registry["current"] = target_version in the local copy.
CliCopy ==
  /\ cli.pc = "copy"
  /\ IF files[cli.src_path].st = "absent"
     THEN /\ cli' = CliDone("raised")
          /\ UNCHANGED files
     ELSE /\ files' = [files EXCEPT ![MODEL_PATH] = files[cli.src_path]]
          /\ cli' = [cli EXCEPT !.pc = "save", !.registry.current = cli.target]
  /\ UNCHANGED <<clock, meta, MODEL, api, train, act, rel, pred, requests, seen, df>>

\* _save_registry: open(ruta_meta, "w") truncates the file ...
CliSaveOpen ==
  /\ cli.pc = "save"
  /\ meta' = TornMeta
  /\ cli' = [cli EXCEPT !.pc = "saving", !.prior = meta]
  /\ UNCHANGED <<clock, files, MODEL, api, train, act, rel, pred, requests, seen, df>>

\* ... and json.dump writes the registry; set_current returns True.
CliSaveWrite ==
  /\ cli.pc = "saving"
  /\ meta' = Written(cli.registry)
  /\ seen' = Persist(cli.registry)
  /\ cli' = CliDone("True")
  /\ UNCHANGED <<clock, files, MODEL, api, train, act, rel, pred, requests, df>>

\* The tool stops where it is (a write raises, or the process is killed).
CliStop ==
  /\ cli.pc \in {"set", "copy", "save", "saving"}
  /\ cli' = CliDone("stopped")
  /\ UNCHANGED <<clock, meta, files, MODEL, api, train, act, rel, pred, requests, seen, df>>

Rollback ==
  \/ \E target \in Versions : CliSetCurrent(target)
  \/ CliRollbackPrevious \/ CliPreviousSetCurrent
  \/ CliCopy \/ CliSaveOpen \/ CliSaveWrite \/ CliStop

\* ------------------------------------------------------------ specification
Next == Tick \/ Training \/ Serving \/ Rollback

Spec == Init /\ [][Next]_vars

\* ------------------------------------------- the request table of /predict
\* The files, the registry and the processes, which the table functions of
\* /predict and the feature deriver neither read nor change.
system == <<clock, meta, files, MODEL, api, train, act, rel, pred, requests, cli, seen>>

\* A table is its sequence of columns; a column has a name and its values,
\* told by where they come from: the request key they were sent under, or the
\* default they were filled with ("now", "0", "UNKNOWN", "Unknown"), or
\* "derived" for what the feature deriver computes.
Column(name, values) == [name |-> name, values |-> values]
HasColumn(t, name) == \E i \in 1..Len(t) : t[i].name = name
\* df[name] = values: a new last column, or new values of the existing one.
SetColumn(t, name, values) ==
  IF HasColumn(t, name)
  THEN [i \in 1..Len(t) |-> IF t[i].name = name THEN Column(name, values) ELSE t[i]]
  ELSE Append(t, Column(name, values))

\* Keys a request's records may carry, in the order a client lists them.
RequestKeys ==
  <<"Date", "Store ID", "Store", "store_id", "Product ID", "ProductID",
    "Units Sold", "units_sold", "Price">>

\* pd.DataFrame(request.records), line 297: one column per key sent.
RECURSIVE DataFrame(_, _)
DataFrame(keys, i) ==
  IF i > Len(RequestKeys) THEN <<>>
  ELSE IF RequestKeys[i] \in keys
  THEN <<Column(RequestKeys[i], RequestKeys[i])>> \o DataFrame(keys, i + 1)
  ELSE DataFrame(keys, i + 1)

\* Lines 300-305: Date is parsed, or today's date when absent; Units Sold is
\* 0 when absent.
date_and_units(t) ==
  LET dated == IF HasColumn(t, "Date") THEN t ELSE SetColumn(t, "Date", "now")
  IN IF HasColumn(dated, "Units Sold") THEN dated
     ELSE SetColumn(dated, "Units Sold", "0")

\* The mapping of _normalize_input_columns, lines 308-325.
mapping ==
  [k \in {"Store", "store", "StoreID", "store_id", "Store Id",
          "Product", "product", "ProductID", "product_id",
          "Units", "UnitsSold", "Units_Sold", "units_sold", "units"} |->
     IF k \in {"Store", "store", "StoreID", "store_id", "Store Id"} THEN "Store ID"
     ELSE IF k \in {"Product", "product", "ProductID", "product_id"} THEN "Product ID"
     ELSE "Units Sold"]

\* Line 327: the synonyms present whose canonical name is not a column.
rename_map(t) ==
  {k \in DOMAIN mapping : HasColumn(t, k) /\ ~HasColumn(t, mapping[k])}

\* _normalize_input_columns, lines 307-341: df.rename(columns=rename_map), then
\* the defaults of the columns still absent.
normalize_input_columns(t) ==
  LET renamed == [i \in 1..Len(t) |->
                    IF t[i].name \in rename_map(t)
                    THEN Column(mapping[t[i].name], t[i].values) ELSE t[i]]
      units == IF HasColumn(renamed, "Units Sold") THEN renamed
               ELSE SetColumn(renamed, "Units Sold", "0")
      store == IF HasColumn(units, "Store ID") THEN units
               ELSE SetColumn(units, "Store ID", "UNKNOWN")
  IN IF HasColumn(store, "Product ID") THEN store
     ELSE SetColumn(store, "Product ID", "UNKNOWN")

\* Columns agregar_caracteristicas assigns, lines 10-28.
DerivedColumns ==
  <<"mes", "dia_semana", "dia_mes", "dia_anio",
    "ventas_lag_1", "ventas_lag_7", "ventas_lag_14", "media_movil_7d">>

\* A column label that several columns bear: df[label] is then a table, and
\* df.groupby([... label ...]) raises.
Duplicated(t, name) == \E i, j \in 1..Len(t) : i # j /\ t[i].name = name /\ t[j].name = name

RECURSIVE SetColumns(_, _, _)
SetColumns(t, names, values) ==
  IF names = <<>> THEN t
  ELSE SetColumns(SetColumn(t, Head(names), values), Tail(names), values)

\* The fitted pipelines a serving process may hold, by the transformers_ of
\* their "preprocesador" step (modelo_demanda.preparar_conjuntos, lines
\* 39-44); the last one has no such step.
FittedModels ==
  { [preprocesador |-> TRUE,
     transformers_ |-> <<[name |-> "categoricas", cols |-> <<"Store ID", "Product ID", "Category">>],
                         [name |-> "numericas", cols |-> <<"Price", "mes", "ventas_lag_1">>]>>],
    [preprocesador |-> TRUE,
     transformers_ |-> <<[name |-> "categoricas", cols |-> <<"Store ID", "Region">>],
                         [name |-> "numericas", cols |-> <<"Inventory Level", "dia_semana", "media_movil_7d">>]>>],
    [preprocesador |-> FALSE, transformers_ |-> <<>>] }

\* Lines 130-139: cols_expected collects the columns of every transformer,
\* cat_cols those of the transformers whose name starts with "categor".
RECURSIVE cols_expected(_)
cols_expected(transformers) ==
  IF transformers = <<>> THEN <<>>
  ELSE Head(transformers).cols \o cols_expected(Tail(transformers))

RECURSIVE cat_cols(_)
cat_cols(transformers) ==
  IF transformers = <<>> THEN <<>>
  ELSE (IF Head(transformers).name = "categoricas" THEN Head(transformers).cols ELSE <<>>)
         \o cat_cols(Tail(transformers))

Elements(seq) == {seq[i] : i \in 1..Len(seq)}

\* Lines 140-142: for c in cols_expected: if c not in df.columns: df[c] = ...
RECURSIVE FillExpected(_, _, _)
FillExpected(t, expected, categorical) ==
  IF expected = <<>> THEN t
  ELSE LET c == Head(expected)
           filled == IF HasColumn(t, c) THEN t
                     ELSE SetColumn(t, c, IF c \in categorical THEN "Unknown" ELSE "0")
       IN FillExpected(filled, Tail(expected), categorical)

\* Mutant of ensure_expected_columns: every absent column is filled with 0.
ensure_expected_columns_zero(t, model) ==
  IF ~model.preprocesador THEN t
  ELSE FillExpected(t, cols_expected(model.transformers_), {})

\* _ensure_expected_columns, lines 123-143.
ensure_expected_columns(t, model) ==
  IF ~model.preprocesador THEN t
  ELSE FillExpected(t, cols_expected(model.transformers_),
                    Elements(cat_cols(model.transformers_)))

\* A /predict request with a model loaded: the keys of its records.
PredictTableInit ==
  /\ Fresh /\ Quiet
  /\ \E keys \in SUBSET Elements(RequestKeys), model \in FittedModels :
       df = [stage |-> "records", keys |-> keys, model |-> model,
             t |-> DataFrame(keys, 1)]

\* Lines 300-305.
PredictDateAndUnits ==
  /\ df.stage = "records"
  /\ df' = [df EXCEPT !.stage = "dated", !.t = date_and_units(df.t)]
  /\ UNCHANGED system

\* Line 343.
PredictNormalize ==
  /\ df.stage = "dated"
  /\ df' = [df EXCEPT !.stage = "normalized", !.t = normalize_input_columns(df.t)]
  /\ UNCHANGED system

\* Line 344: agregar_caracteristicas(df); the error it raises on a duplicated
\* group column is not caught by the handler.
PredictDerive ==
  /\ df.stage = "normalized"
  /\ IF \E c \in {"Store ID", "Product ID", "Units Sold", "Date"} : Duplicated(df.t, c)
     THEN df' = [df EXCEPT !.stage = "raised"]
     ELSE df' = [df EXCEPT !.stage = "derived",
                           !.t = SetColumns(df.t, DerivedColumns, "derived")]
  /\ UNCHANGED system

\* Line 345.
PredictEnsureColumns ==
  /\ df.stage = "derived"
  /\ df' = [df EXCEPT !.stage = "ensured", !.t = ensure_expected_columns(df.t, df.model)]
  /\ UNCHANGED system

PredictTableNext ==
  PredictDateAndUnits \/ PredictNormalize \/ PredictDerive \/ PredictEnsureColumns

PredictTableSpec == PredictTableInit /\ [][PredictTableNext]_vars

\* ------------------------------- the feature deriver (agregar_caracteristicas)
\* The (Store ID, Product ID) groups of the rows.
Groups == {<<"S1", "P1">>, <<"S1", "P2">>}

\* A row before derivation.  Dates are days of January 2022; the sold units of
\* a row tell its position in the table, so that a lag names the row it took.
Row(date, group, units) ==
  [Date |-> date, StoreID |-> group[1], ProductID |-> group[2], UnitsSold |-> units]

\* Table positions before i of the rows of i's group, in table order: what
\* df.groupby(["Store ID", "Product ID"]) gives shift and rolling to work on.
RECURSIVE Earlier(_, _, _)
Earlier(rows, i, j) ==
  IF j >= i THEN <<>>
  ELSE (IF rows[j].StoreID = rows[i].StoreID /\ rows[j].ProductID = rows[i].ProductID
        THEN <<j>> ELSE <<>>) \o Earlier(rows, i, j + 1)

\* fillna(0) of ventas_series.shift(k), lines 18-20 and 28.
shift(rows, i, k) ==
  LET e == Earlier(rows, i, 1)
  IN IF Len(e) >= k THEN rows[e[Len(e) - k + 1]].UnitsSold ELSE 0

RECURSIVE SumUnits(_, _, _)
SumUnits(rows, e, n) ==
  IF n = 0 THEN 0
  ELSE rows[e[Len(e) - n + 1]].UnitsSold + SumUnits(rows, e, n - 1)

\* serie.shift(1).rolling(window=7, min_periods=1).mean(), lines 22-25, with
\* fillna(0): the mean, as sum over count, of up to 7 rows before i.
rolling_mean(rows, i) ==
  LET e == Earlier(rows, i, 1)
      n == IF Len(e) < 7 THEN Len(e) ELSE 7
  IN IF n = 0 THEN [sum |-> 0, count |-> 1]
     ELSE [sum |-> SumUnits(rows, e, n), count |-> n]

\* Mutant of agregar_caracteristicas: on a table that has the lag columns the
\* lags are shifted once more (taken from the earlier row's lag column).
agregar_caracteristicas_twice_shifted(rows) ==
  [i \in 1..Len(rows) |->
     LET e == Earlier(rows, i, 1)
         lag(k) == IF "ventas_lag_1" \in DOMAIN rows[i]
                   THEN (IF Len(e) >= 1 THEN rows[e[Len(e)]].ventas_lag_1 ELSE 0)
                   ELSE shift(rows, i, k)
     IN [Date |-> rows[i].Date, StoreID |-> rows[i].StoreID,
         ProductID |-> rows[i].ProductID, UnitsSold |-> rows[i].UnitsSold,
         mes |-> 1, dia_semana |-> (rows[i].Date + 4) % 7,
         dia_mes |-> rows[i].Date, dia_anio |-> rows[i].Date,
         ventas_lag_1 |-> lag(1), ventas_lag_7 |-> lag(7), ventas_lag_14 |-> lag(14),
         media_movil_7d |-> rolling_mean(rows, i)]]

\* agregar_caracteristicas, lines 8-30: calendar fields of Date (1 January
\* 2022 was a Saturday, dayofweek 5), lags and rolling mean of Units Sold per
\* group; columns it finds are assigned anew.
agregar_caracteristicas(rows) ==
  [i \in 1..Len(rows) |->
     [Date |-> rows[i].Date, StoreID |-> rows[i].StoreID,
      ProductID |-> rows[i].ProductID, UnitsSold |-> rows[i].UnitsSold,
      mes |-> 1, dia_semana |-> (rows[i].Date + 4) % 7,
      dia_mes |-> rows[i].Date, dia_anio |-> rows[i].Date,
      ventas_lag_1 |-> shift(rows, i, 1), ventas_lag_7 |-> shift(rows, i, 7),
      ventas_lag_14 |-> shift(rows, i, 14),
      media_movil_7d |-> rolling_mean(rows, i)]]

\* A table of up to MaxRows rows with the required fields: the records of a
\* /predict request come in the order the client lists them, by date
\* ("asc") or latest first ("desc"); the training flow's table is sorted by
\* group and date (procesamiento_datos.limpiar_datos, line 55).
DeriverInit ==
  /\ Fresh /\ Quiet
  /\ \E n \in 1..MaxRows, order \in {"asc", "desc"} :
       \E groups \in [1..n -> Groups] :
         df = [stage |-> "table", order |-> order,
               rows |-> [i \in 1..n |->
                           Row(IF order = "asc" THEN i ELSE n + 1 - i, groups[i], i)]]

\* df = agregar_caracteristicas(df), api_endpoints_only.py line 344 and
\* flujo_principal.py line 50.
Derive ==
  /\ df.stage = "table"
  /\ df' = [df EXCEPT !.stage = "derived", !.rows = agregar_caracteristicas(df.rows)]
  /\ UNCHANGED system

\* The deriver applied to the table it has enriched.
DeriveAgain ==
  /\ df.stage = "derived"
  /\ df' = [df EXCEPT !.stage = "derived again", !.rows = agregar_caracteristicas(df.rows)]
  /\ UNCHANGED system

DeriverNext == Derive \/ DeriveAgain

DeriverSpec == DeriverInit /\ [][DeriverNext]_vars


\* ------------------------------------------------------------------- claims
\* A step in which an explicit reload (of /model/reload or of /model/activate)
\* that loaded nothing assigns MODEL and answers.
ActivateReloadFails(h) ==
  act[h].pc = "assign" /\ act'[h].pc = "idle" /\ act[h].m = None
ReloadFails == rel.pc = "assign" /\ rel'.pc = "idle" /\ rel.m = None

\* C1: when an explicit reload (POST /model/reload, or the one POST
\* /model/activate performs) fails to load an artifact, the caller is told
\* (500) and the model that was loaded before is still the loaded model.
C1_FailedReloadKeepsModel ==
  [][/\ \A h \in ActThreads :
          ActivateReloadFails(h) => act'[h].resp = "500" /\ MODEL' = MODEL
     /\ ReloadFails => rel'.resp = "500" /\ MODEL' = MODEL]_vars


\* C2: a /predict request uses one single model for all its steps: the model
\* that the expected-column reconciliation reads, and the one the regression
\* call reads, is the model the model-loaded check saw (m1), whatever reloads
\* or activations ran meanwhile.
C2_PredictUsesOneModel ==
  [][/\ (pred.pc = "frame" /\ pred'.pc = "predict") => MODEL = pred.m1
     /\ (pred.pc = "predict" /\ pred'.pc = "idle") => MODEL = pred.m1]_vars

\* A step in which a registry write that had begun ends without completing.
TrainWriteInterrupted(r) == train[r].pc = "saving" /\ train'[r].pc = "stopped"
CliWriteInterrupted == cli.pc = "saving" /\ cli'.pc = "idle" /\ cli'.result = "stopped"
ActivateWriteFailed(h) == act[h].pc = "saving" /\ act'[h].pc = "reload" /\ act'[h].failed

\* C3: a registry write is all-or-nothing: when a write by the training job,
\* the activation endpoint or the rollback tool fails or is interrupted, the
\* persisted registry holds the content it had when that write began (prior),
\* which is parseable or absent, never a truncated file.
C3_RegistryWriteAllOrNothing ==
  [][/\ \A r \in Runs : TrainWriteInterrupted(r) => meta' = train[r].prior
     /\ CliWriteInterrupted => meta' = cli.prior
     /\ \A h \in ActThreads : ActivateWriteFailed(h) => meta' = act[h].prior]_vars

\* C4: versions are never deleted: every version id that was in the persisted
\* registry at some point is in the persisted sequence, and two ids that were
\* persisted in some order are still in that order.
C4_VersionsNeverDeleted ==
  meta.st = "ok" =>
    /\ seen.ids \subseteq VersionIds(meta.versions)
    /\ seen.pairs \subseteq OrderedPairs(meta.versions)


\* A step in which a handler or the tool takes up a request for `version`.
ActivateRequested(h) == act[h].pc = "idle" /\ act'[h] # act[h]
CliRequested == cli.pc = "idle" /\ cli' # cli

\* C5: activating a version id that is not in the registry's sequence is
\* answered with NotFound (404 by POST /model/activate, False by rollback
\* --to) at once, and the persisted registry (current and versions), the
\* artifact files and the loaded model are as before.  The registry's sequence
\* is what a read gives: the empty one when the file is missing or unparseable.
C5_UnknownVersionNotFound ==
  [][/\ \A h \in ActThreads :
          (ActivateRequested(h)
             /\ act'[h].version \notin VersionIds(api_load_registry(meta).versions))
            => /\ act'[h].resp = "404" /\ act'[h].pc = "idle"
               /\ meta' = meta /\ files' = files /\ MODEL' = MODEL
     /\ (CliRequested /\ cli'.cmd = "to"
           /\ cli'.target \notin VersionIds(api_load_registry(meta).versions))
            => /\ cli'.pc = "idle" /\ cli'.result = "False"
               /\ meta' = meta /\ files' = files /\ MODEL' = MODEL]_vars

\* C6: POST /model/activate for a registered version answers 500 whenever the
\* named version's artifact could not be loaded (art = None: file missing or
\* not deserializable); hence when it answers "activated" the model it puts in
\* memory is the named version's artifact.
C6_ActivatedMeansNamedVersion ==
  [][\A h \in ActThreads :
       (act[h].pc = "assign" /\ act'[h].pc = "idle") =>
         /\ act[h].art = None => act'[h].resp = "500"
         /\ act'[h].resp = "activated" => MODEL' = act[h].art]_vars

\* A step of a training run other than the completion of its registry write:
\* the run may stop for good right after it.
TrainStepBeforeWritten ==
  /\ train' # train
  /\ \A r \in Runs : ~(train[r].pc = "saving" /\ train'[r].pc = "done")

\* C7: a training run that stops before its registry write completes never
\* affects the live model: none of its steps up to there changes the loaded
\* model, nor what a reload or a restart of the serving process would load.
C7_PartialRetrainHarmless ==
  [][TrainStepBeforeWritten =>
       /\ MODEL' = MODEL
       /\ load_model_from_registry(meta', files') = load_model_from_registry(meta, files)]_vars

\* The steps that assign MODEL by design.
StartupStep == api = "down" /\ api' = "up"
ActivateAssignStep == \E h \in ActThreads : act[h].pc = "assign" /\ act'[h].pc = "idle"
ReloadAssignStep == rel.pc = "assign" /\ rel'.pc = "idle"

\* C8: no automatic reload after a retrain: POST /retrain, the training run and
\* its registry update leave the loaded model unchanged; MODEL changes only in
\* the startup load, in an activate request or in a reload request.
C8_NoAutomaticReload ==
  [][/\ train' # train => MODEL' = MODEL
     /\ MODEL' # MODEL => StartupStep \/ ActivateAssignStep \/ ReloadAssignStep]_vars

\* C8's case: a run started by POST /retrain has registered its version as
\* current, a reload would load its pipeline, and the serving process still
\* holds another model.
C8_Witness ==
  \E r \in Runs :
    /\ train[r].by = "retrain" /\ train[r].pc = "done" /\ train[r].at = "saved"
    /\ meta.st = "ok" /\ meta.current = train[r].version
    /\ load_model_from_registry(meta, files) = Pipeline(r)
    /\ api = "up" /\ MODEL # None /\ MODEL # Pipeline(r)

\* C9: a /predict request with an empty batch is answered 400 and never
\* reaches the model (neither the reconciliation nor the regression call),
\* whether a model is loaded or not.
C9_EmptyBatchIs400 ==
  pred.records = "empty" =>
    /\ pred.pc = "idle" /\ pred.resp = "400"
    /\ ~pred.reached

\* A reload or activation that succeeds: it puts a model in memory.
SuccessfulReloadStep ==
  \/ \E h \in ActThreads : act[h].pc = "assign" /\ act'[h].pc = "idle" /\ act[h].m # None
  \/ rel.pc = "assign" /\ rel'.pc = "idle" /\ rel.m # None
PredictRequested == pred.pc = "idle" /\ pred' # pred

\* C10: when the startup load finds nothing loadable the service is up with no
\* model; while no model is loaded /health says model_loaded = false and a
\* /predict request with a non-empty batch is answered 503; and the model
\* stays absent until a reload or an activation succeeds.
C10_ColdStartDegrades ==
  [][/\ (StartupStep /\ load_model_from_registry(meta, files) = None)
          => api' = "up" /\ MODEL' = None /\ ~health'.model_loaded
     /\ (api = "up" /\ MODEL = None /\ ~SuccessfulReloadStep)
          => api' = "up" /\ MODEL' = None /\ ~health'.model_loaded
     /\ (api = "up" /\ MODEL = None /\ PredictRequested /\ pred'.records = "batch")
          => pred'.resp = "503" /\ pred'.pc = "idle"]_vars

\* C10's case: the service came up with nothing loadable, says so on /health
\* and has answered a non-empty /predict with 503, while a trained artifact
\* is by now on disk for a later reload to load.
C10_Witness ==
  /\ api = "up" /\ MODEL = None /\ ~health.model_loaded
  /\ pred.pc = "idle" /\ pred.records = "batch" /\ pred.resp = "503"
  /\ load_model_from_registry(meta, files) # None

\* The artifact path the preference order designates: the model_path of the
\* registry's current entry when that version is registered and its file
\* exists, else the legacy path when that file exists, else no path (-1).
PreferredPath(f, fs) ==
  LET registry == api_load_registry(f)
      named == {i \in 1..Len(registry.versions) :
                  /\ registry.versions[i].version = registry.current
                  /\ fs[registry.versions[i].model_path].st # "absent"}
  IN IF registry.current # None /\ named # {}
     THEN registry.versions[CHOOSE i \in named : TRUE].model_path
     ELSE IF fs[MODEL_PATH].st # "absent" THEN MODEL_PATH
     ELSE -1

\* What loading the designated artifact gives (None when there is none).
PreferredLoad(f, fs) ==
  IF PreferredPath(f, fs) = -1 THEN None ELSE joblib_load(fs[PreferredPath(f, fs)])

\* C11: reload() chooses the artifact by preference order (registry current
\* entry's file when registered and existing, else the legacy file when it
\* exists, else nothing): every load of the startup, of /model/reload and of
\* /model/activate loads exactly that artifact, and the reload's answer tells
\* whether a model is now loaded ("reloaded" iff MODEL is not None).
C11_ReloadPreferenceOrder ==
  [][/\ StartupStep => MODEL' = PreferredLoad(meta, files)
     /\ (rel.pc = "idle" /\ rel'.pc = "assign") => rel'.m = PreferredLoad(meta, files)
     /\ \A h \in ActThreads :
          (act[h].pc = "reload" /\ act'[h].pc = "assign")
            => act'[h].m = PreferredLoad(meta, files)
     /\ ReloadAssignStep =>
          /\ MODEL' = rel.m
          /\ rel'.resp = "reloaded" <=> MODEL' # None
          /\ rel'.resp = "500" <=> MODEL' = None]_vars

\* C11's case: a reload has loaded the registry's current artifact while the
\* legacy file holds another pipeline, so the order of preference decided.
C11_Witness ==
  /\ rel.resp = "reloaded" /\ meta.st = "ok" /\ meta.current # None
  /\ files[meta.current].st = "ok" /\ files[MODEL_PATH].st = "ok"
  /\ MODEL = files[meta.current].pipeline
  /\ files[MODEL_PATH].pipeline # MODEL
  /\ PreferredPath(meta, files) = meta.current

\* C12: in every reachable persisted registry state (whatever training runs,
\* activations and rollbacks produced it), current is unset or is the version
\* id of an entry of the versions sequence; so is it for every reader.
C12_CurrentIsRegistered ==
  /\ meta.current = None \/ meta.current \in VersionIds(meta.versions)
  /\ api_load_registry(meta).current = None
       \/ api_load_registry(meta).current \in VersionIds(api_load_registry(meta).versions)

\* C12's case: the registry holds several versions and an activation or a
\* rollback has moved current back to the first of them.
C12_Witness ==
  /\ meta.st = "ok" /\ Len(meta.versions) >= 2
  /\ meta.current = meta.versions[1].version
  /\ meta.current # meta.versions[Len(meta.versions)].version
  /\ \/ cli.result = "True"
     \/ \E h \in ActThreads : act[h].resp \in {"activated", "500"}

\* C13: version identifiers are unique: whatever training runs completed, and
\* whenever (overlapping runs included), the ids of the registry's sequence are
\* pairwise distinct and no two entries name the same versioned artifact file.
C13_VersionIdsUnique ==
  \A i, j \in 1..Len(meta.versions) :
    i # j => /\ meta.versions[i].version # meta.versions[j].version
             /\ meta.versions[i].model_path # meta.versions[j].model_path

\* A step in which the rollback tool takes up `--previous`.
CliPreviousRequested == cli.pc = "idle" /\ cli' # cli /\ cli'.cmd = "previous"

\* No previous version is available: current is unset or is the first entry,
\* or at most one version exists.
NoPreviousVersion(registry) ==
  \/ registry.current = None
  \/ Len(registry.versions) <= 1
  \/ registry.versions[1].version = registry.current

\* C14: rollback to previous picks the version immediately preceding the
\* current one in insertion order and, when it completes, has made it current;
\* when current is unset or is the first entry, or only one version exists, it
\* reports that no previous version is available and leaves the registry file
\* and the legacy artifact unchanged.  The registry is what a read gives: the
\* empty one when the file is missing or unparseable.
C14_RollbackPrevious ==
  [][/\ CliPreviousRequested =>
          LET registry == api_load_registry(meta) IN
          IF NoPreviousVersion(registry)
          THEN /\ cli'.pc = "idle" /\ cli'.result = "NoPrevious"
               /\ meta' = meta /\ files' = files
          ELSE registry.current \in VersionIds(registry.versions) =>
                 /\ cli'.pc = "set"
                 /\ \E i \in 2..Len(registry.versions) :
                      /\ registry.versions[i].version = registry.current
                      /\ cli'.target = registry.versions[i - 1].version
     /\ (cli.cmd = "previous" /\ cli.pc = "saving" /\ cli'.result = "True")
          => meta'.st = "ok" /\ meta'.current = cli.target]_vars

\* What a graceful read gives: the registry of a parseable file, the empty
\* registry of a missing or unparseable one.
GracefulRead(f) ==
  IF f.st = "ok" THEN [versions |-> f.versions, current |-> f.current]
  ELSE EmptyRegistry

\* C15: reading the registry never raises to the caller: every reader (the
\* training job before it appends, the activation endpoint, the loader, the
\* rollback tool in --to and --previous) works on the registry a graceful read
\* gives, the empty one when the file is missing or unparseable, and goes on.
C15_RegistryReadNeverRaises ==
  [][/\ \A r \in Runs :
          (train[r].pc = "load" /\ train'[r].pc = "save")
            => train'[r].registry = AppendEntry(GracefulRead(meta), train[r].version)
     /\ \A h \in ActThreads :
          (ActivateRequested(h) /\ GracefulRead(meta) = EmptyRegistry)
            => act'[h].resp = "404"
     /\ (cli.pc \in {"idle", "set"} /\ cli' # cli /\ cli'.result # "stopped")
          => /\ cli'.result # "raised"
             /\ GracefulRead(meta) = EmptyRegistry
                  => cli'.result = (IF cli'.cmd = "previous" /\ cli.pc = "idle"
                                    THEN "NoPrevious" ELSE "False")]_vars

\* Every reader reads `registry` from the file content f.
ReadsBack(f, registry) ==
  /\ api_load_registry(f) = registry
  /\ train_load_registry(f) = registry
  /\ ~rollback_load_registry(f).raised
  /\ rollback_load_registry(f).versions = registry.versions
  /\ rollback_load_registry(f).current = registry.current

Canonical == {"Store ID", "Product ID", "Units Sold"}
Sentinel(c) == IF c = "Units Sold" THEN "0" ELSE "UNKNOWN"
Synonyms(c) == {k \in DOMAIN mapping : mapping[k] = c}

\* C17: column normalization in /predict: when the request carries store id,
\* product id or sold units under a listed synonym and not under the canonical
\* name, the table handed to the feature deriver has the canonical column
\* holding the synonym's values; a canonical column holds its sentinel default
\* ("UNKNOWN", "UNKNOWN", 0) only when the request carried neither the
\* canonical name nor a synonym of it.
C17_SynonymsNormalized ==
  df.stage = "normalized" =>
    \A c \in Canonical :
      /\ (c \notin df.keys /\ Synonyms(c) \cap df.keys # {})
           => \E i \in 1..Len(df.t) :
                df.t[i].name = c /\ df.t[i].values \in Synonyms(c) \cap df.keys
      /\ (\E i \in 1..Len(df.t) : df.t[i].name = c /\ df.t[i].values = Sentinel(c))
           => (c \notin df.keys /\ Synonyms(c) \cap df.keys = {})

\* The columns a fitted pipeline's preprocessor expects, and those of them
\* that belong to the categorical group.
ExpectedColumns(model) ==
  UNION {Elements(tr.cols) : tr \in Elements(model.transformers_)}
CategoricalColumns(model) ==
  UNION {Elements(tr.cols) :
           tr \in {x \in Elements(model.transformers_) : x.name = "categoricas"}}

\* C18: expected-column reconciliation: after it runs every column the loaded
\* model's fitted preprocessor expects is in the request table; each expected
\* column that was absent holds "Unknown" if it is categorical and 0 otherwise;
\* the columns already present keep their values.
C18_ExpectedColumnsReconciled ==
  [][(df.stage = "derived" /\ df'.stage = "ensured") =>
       /\ \A c \in ExpectedColumns(df.model) :
            /\ HasColumn(df'.t, c)
            /\ ~HasColumn(df.t, c) =>
                 \A i \in 1..Len(df'.t) :
                   df'.t[i].name = c =>
                     df'.t[i].values = (IF c \in CategoricalColumns(df.model)
                                        THEN "Unknown" ELSE "0")
       /\ \A i \in 1..Len(df.t) : df'.t[i] = df.t[i]]_vars

\* C18's case: a request without Category and Price, scored by a model that
\* expects both: Category was filled with "Unknown", Price with 0, and the
\* store id the request sent is still there.
C18_Witness ==
  /\ df.stage = "ensured"
  /\ "Category" \in CategoricalColumns(df.model)
  /\ "Price" \in ExpectedColumns(df.model) \ df.keys
  /\ \E i, j, k \in 1..Len(df.t) :
       /\ df.t[i] = Column("Category", "Unknown")
       /\ df.t[j] = Column("Price", "0")
       /\ df.t[k] = Column("Store ID", "Store ID")

\* The lags the deriver computes.
Lags == {1, 7, 14}

\* Rows of i's group dated before row i.
ChronologicallyEarlier(rows, i) ==
  {j \in 1..Len(rows) :
     /\ rows[j].StoreID = rows[i].StoreID /\ rows[j].ProductID = rows[i].ProductID
     /\ rows[j].Date < rows[i].Date}

\* The sold units of the row k positions before row i in the date order of
\* its group, 0 when the group has fewer than k earlier rows.
ChronologicalLag(rows, i, k) ==
  LET before == ChronologicallyEarlier(rows, i)
  IN IF Cardinality(before) < k THEN 0
     ELSE rows[CHOOSE j \in before :
                 Cardinality({l \in before : rows[l].Date > rows[j].Date}) = k - 1].UnitsSold

LagOf(row, k) ==
  IF k = 1 THEN row.ventas_lag_1 ELSE IF k = 7 THEN row.ventas_lag_7 ELSE row.ventas_lag_14

\* C19: lag correctness: for every table with the required fields, every row
\* and k in {1, 7, 14}, the lag-k feature is the sold units of the row k
\* positions earlier in the chronological (date) order of the row's (store,
\* product) group, 0 when there are fewer than k; the chronologically first
\* row of a group has lags and rolling mean 0.
C19_LagsChronological ==
  df.stage = "derived" =>
    \A i \in 1..Len(df.rows) :
      /\ \A k \in Lags : LagOf(df.rows[i], k) = ChronologicalLag(df.rows, i, k)
      /\ ChronologicallyEarlier(df.rows, i) = {} => df.rows[i].media_movil_7d.sum = 0

\* C20: feature derivation is idempotent: the deriver applied to a table it
\* has enriched gives every row the same calendar fields, lags and rolling
\* mean as the first application.
C20_DerivationIdempotent ==
  [][(df.stage = "derived" /\ df'.stage = "derived again") => df'.rows = df.rows]_vars

\* C20's case: the deriver ran twice on a table in which some row has 14
\* earlier rows in its group, so that all three lags and the rolling mean of
\* that row are taken from other rows.
C20_Witness ==
  /\ df.stage = "derived again"
  /\ \E i \in 1..Len(df.rows) :
       /\ df.rows[i].ventas_lag_1 # 0 /\ df.rows[i].ventas_lag_7 # 0
       /\ df.rows[i].ventas_lag_14 # 0 /\ df.rows[i].media_movil_7d.count = 7

\* ---------------------------------------------------------------------------
\* API-key check of the protected endpoints (require_api_key).  A string is a
\* sequence of words separated by single spaces, the empty string is << >>;
\* a header or query parameter is either not sent or carries a string.
\* ---------------------------------------------------------------------------

NotSent == [sent |-> FALSE]

Sent(value) == [sent |-> TRUE, value |-> value]

\* Python truthiness of an Optional[str]: neither None nor "".
Truthy(h) == h.sent /\ h.value # << >>

Lower(word) == IF word \in {"Bearer", "BEARER"} THEN "bearer" ELSE word

\* Lines 205-208: the text after the first space when the header starts with
\* "bearer " in any letter case, the whole header otherwise.
authorization_candidate(authorization) ==
  IF Len(authorization) >= 2 /\ Lower(Head(authorization)) = "bearer"
  THEN Tail(authorization)
  ELSE authorization

\* Lines 202-210.
candidates(x_api_key, authorization, api_key) ==
  <<x_api_key, api_key>>
    \o (IF Truthy(authorization)
        THEN <<Sent(authorization_candidate(authorization.value))>>
        ELSE << >>)

\* The check with the query parameter left out of the candidates.
require_api_key_headers_only(API_KEY, x_api_key, authorization, api_key) ==
  IF API_KEY = << >> THEN "True"
  ELSE LET cs == candidates(x_api_key, authorization, NotSent)
       IN IF \E i \in 1..Len(cs) : Truthy(cs[i]) /\ cs[i].value = API_KEY
          THEN "True"
          ELSE "401"

\* Lines 199-216: "True" when the dependency returns, "401" when it raises.
require_api_key(API_KEY, x_api_key, authorization, api_key) ==
  IF API_KEY = << >> THEN "True"
  ELSE LET cs == candidates(x_api_key, authorization, api_key)
       IN IF \E i \in 1..Len(cs) : Truthy(cs[i]) /\ cs[i].value = API_KEY
          THEN "True"
          ELSE "401"

Keys == {<< >>, <<"k">>}

Credentials == {NotSent, Sent(<< >>), Sent(<<"k">>), Sent(<<"bad">>)}

Authorizations ==
  {NotSent, Sent(<< >>), Sent(<<"Bearer", "k">>), Sent(<<"bearer", "k">>),
   Sent(<<"Bearer", "bad">>), Sent(<<"k">>), Sent(<<"bad">>),
   Sent(<<"Basic", "k">>), Sent(<<"Bearer">>)}

AuthInit ==
  /\ Fresh /\ Quiet
  /\ \E key \in Keys, x \in Credentials, a \in Authorizations, q \in Credentials :
       df = [stage |-> "request", API_KEY |-> key, x_api_key |-> x,
             authorization |-> a, api_key |-> q, result |-> "none"]

\* A request to an endpoint that depends on require_api_key.
RequireApiKey ==
  /\ df.stage = "request"
  /\ df' = [df EXCEPT !.stage = "checked",
                      !.result = require_api_key(df.API_KEY, df.x_api_key,
                                                 df.authorization, df.api_key)]
  /\ UNCHANGED system

AuthNext == RequireApiKey

AuthSpec == AuthInit /\ [][AuthNext]_vars

\* The credentials a request supplies, in the order of the specification:
\* x-api-key header, bearer-style Authorization header, api_key parameter.
BearerStyle(authorization) ==
  authorization.sent /\ Len(authorization.value) >= 2
    /\ Lower(Head(authorization.value)) = "bearer"

Supplied(r) ==
  (IF r.x_api_key.sent THEN <<r.x_api_key.value>> ELSE << >>)
    \o (IF BearerStyle(r.authorization) THEN <<Tail(r.authorization.value)>> ELSE << >>)
    \o (IF r.api_key.sent THEN <<r.api_key.value>> ELSE << >>)

\* C21: with a key configured, the credential checked is the first one
\* present among the x-api-key header, the bearer-style Authorization header
\* and the api_key query parameter, and the request is answered 401 when that
\* credential is missing or differs from the configured key; with no key
\* configured no request is answered 401.
C21_FirstCredentialChecked ==
  df.stage = "checked" =>
    IF df.API_KEY = << >> THEN df.result # "401"
    ELSE (df.result = "401") <=>
           (Supplied(df) = << >> \/ Head(Supplied(df)) # df.API_KEY)

\* Every non-empty value a request offers as a credential: both parameters,
\* and the Authorization header with a leading "bearer " removed.
Offered(r) ==
  {h.value : h \in {h \in {r.x_api_key, r.api_key} : Truthy(h)}}
    \cup (IF Truthy(r.authorization)
          THEN {authorization_candidate(r.authorization.value)} ELSE {})

\* C21 (amended): with a key configured a request is answered 401 exactly
\* when none of the credentials it offers equals the configured key; with no
\* key configured no request is answered 401.
C21_AnyCredentialAccepted ==
  df.stage = "checked" =>
    IF df.API_KEY = << >> THEN df.result # "401"
    ELSE (df.result = "401") <=> (df.API_KEY \notin Offered(df))

\* C21's case: a key is configured, the x-api-key header carries a wrong
\* value and the api_key parameter the right one, and the check has answered.
C21_Witness ==
  /\ df.stage = "checked" /\ df.API_KEY # << >>
  /\ df.x_api_key = Sent(<<"bad">>) /\ df.api_key = Sent(df.API_KEY)
  /\ df.result = "True"

\* ---------------------------------------------------------------------------
\* Two /predict calls against one loaded model (lines 296-353), with values:
\* a date is its day of the year 2022, the wall clock is a day and an hour.
\* ---------------------------------------------------------------------------

MaxDays == 3

FirstDay == 30

Days == FirstDay..(FirstDay + MaxDays - 1)

Prices == {1, 2}

\* pd.Timestamp.now().normalize(): the current day at midnight.
normalize(now) == now.day

\* Lines 10-13 of the deriver: month, weekday (Monday 0), day of month, day of
\* year of a date of January or February 2022.
calendar(date) ==
  [mes |-> IF date <= 31 THEN 1 ELSE 2,
   dia_semana |-> (date + 4) % 7,
   dia_mes |-> IF date <= 31 THEN date ELSE date - 31,
   dia_anio |-> date]

\* A request body of one record: Price always, Date when the client sends it.
Bodies ==
  [has_date : {TRUE}, Date : Days, Price : Prices]
    \cup [has_date : {FALSE}, Date : {0}, Price : Prices]

\* Lines 297-345 for a one-record batch: the row handed to MODEL.predict; its
\* lags and rolling mean are 0, there is no earlier row.
features(body, now) ==
  LET date == IF body.has_date THEN body.Date ELSE normalize(now)
      c == calendar(date)
  IN [mes |-> c.mes, dia_semana |-> c.dia_semana, dia_mes |-> c.dia_mes,
      dia_anio |-> c.dia_anio, Price |-> body.Price, ventas_lag_1 |-> 0]

\* A fitted pipeline, told by its version and by the numeric feature its
\* regressor has learnt to split on (training decides which).
Regressors == [version : 1..2, split : {"mes", "dia_semana", "Price", "ventas_lag_1"}]

\* MODEL.predict(df), line 348: a function of the row alone.
model_predict(model, row) == row[model.split]

CallsInit ==
  /\ Fresh /\ Quiet
  /\ \E model \in Regressors :
       df = [stage |-> "calls", model |-> model,
             now |-> [day |-> FirstDay, hour |-> 0], calls |-> << >>]

\* Time passes between requests.
Later ==
  /\ df.stage = "calls"
  /\ \/ df.now.hour = 0 /\ df' = [df EXCEPT !.now.hour = 12]
     \/ df.now.hour = 12 /\ df.now.day + 1 \in Days
          /\ df' = [df EXCEPT !.now = [day |-> df.now.day + 1, hour |-> 0]]
  /\ UNCHANGED system

\* POST /predict with a valid one-record batch, answered 200.
PredictCall ==
  /\ df.stage = "calls"
  /\ Len(df.calls) < 2
  /\ \E body \in Bodies :
       df' = [df EXCEPT !.calls = Append(@,
                [body |-> body, version |-> df.model.version,
                 predictions |-> <<model_predict(df.model, features(body, df.now))>>])]
  /\ UNCHANGED system

CallsNext == Later \/ PredictCall

CallsSpec == CallsInit /\ [][CallsNext]_vars

\* C22: prediction is deterministic: two /predict calls with the same request
\* body against the same loaded model version return the same predictions,
\* whatever else differs between the calls (time of the call, earlier
\* requests).
C22_PredictDeterministic ==
  df.stage = "calls" =>
    \A i, j \in 1..Len(df.calls) :
      (df.calls[i].body = df.calls[j].body /\ df.calls[i].version = df.calls[j].version)
        => df.calls[i].predictions = df.calls[j].predictions

\* ---------------------------------------------------------------------------
\* Read-only endpoints over backing files: GET /model/version (lines 356-361),
\* GET /reports/detail (399-407), GET /reports/season (410-418).  A CSV file
\* is absent, opened for writing and still empty ("torn"), or holds its rows;
\* a row is its position in the file.
\* ---------------------------------------------------------------------------

MaxReportRows == 3

Min(a, b) == IF a <= b THEN a ELSE b

Max(a, b) == IF a >= b THEN a ELSE b

NoCsv == [st |-> "absent", rows |-> << >>]

TornCsv == [st |-> "torn", rows |-> << >>]

Csv(n) == [st |-> "ok", rows |-> [i \in 1..n |-> i]]

CsvFiles == {NoCsv, TornCsv} \cup {Csv(n) : n \in 0..MaxReportRows}

\* Values of the query parameter rows: int = 100.
RowsParameters == (0 - 2)..(MaxReportRows + 1)

\* DataFrame.head(n): the first n rows, all but the last -n rows when n < 0.
head(rows, n) ==
  IF n >= 0 THEN SubSeq(rows, 1, Min(n, Len(rows)))
  ELSE SubSeq(rows, 1, Max(Len(rows) + n, 0))

Response(endpoint, file, status, body) ==
  [endpoint |-> endpoint, file |-> file, status |-> status, body |-> body]

NoBody == [rows |-> 0, data |-> << >>]

\* report_season without its check that the file exists.
report_season_unchecked(file) ==
  IF file.st # "ok" THEN Response("season", file.st, "500", NoBody)
  ELSE Response("season", file.st, "200",
                [rows |-> Len(file.rows), data |-> file.rows])

\* Lines 399-407; pd.read_csv raises on an empty file.
report_detail(file, rows) ==
  IF file.st = "absent" THEN Response("detail", file.st, "404", NoBody)
  ELSE IF file.st = "torn" THEN Response("detail", file.st, "500", NoBody)
  ELSE Response("detail", file.st, "200",
                [rows |-> Min(rows, Len(file.rows)), data |-> head(file.rows, rows)])

\* Lines 410-418.
report_season(file) ==
  IF file.st = "absent" THEN Response("season", file.st, "404", NoBody)
  ELSE IF file.st = "torn" THEN Response("season", file.st, "500", NoBody)
  ELSE Response("season", file.st, "200",
                [rows |-> Len(file.rows), data |-> file.rows])

\* Lines 356-361; json.load raises on a file that is not a JSON document.
model_version(file) ==
  IF file.st = "absent" THEN Response("version", file.st, "404", NoBody)
  ELSE IF file.st = "torn" THEN Response("version", file.st, "500", NoBody)
  ELSE Response("version", file.st, "200", NoBody)

ReportsInit ==
  /\ Fresh /\ Quiet
  /\ \E detalle \in CsvFiles, temporada \in CsvFiles :
       df = [stage |-> "reports", detalle |-> detalle, temporada |-> temporada,
             metadata |-> "absent", rows |-> 0,
             resp |-> Response("none", "absent", "none", NoBody)]

\* The training pipeline and the training job write the backing files.
ExportFile ==
  /\ df.stage = "reports"
  /\ \/ df.detalle.st = "absent" /\ df' = [df EXCEPT !.detalle = TornCsv]
     \/ df.temporada.st = "absent" /\ df' = [df EXCEPT !.temporada = TornCsv]
     \/ /\ df.detalle.st = "torn"
        /\ \E n \in 0..MaxReportRows : df' = [df EXCEPT !.detalle = Csv(n)]
     \/ /\ df.temporada.st = "torn"
        /\ \E n \in 0..MaxReportRows : df' = [df EXCEPT !.temporada = Csv(n)]
     \/ df.metadata = "absent" /\ df' = [df EXCEPT !.metadata = "torn"]
     \/ df.metadata = "torn" /\ df' = [df EXCEPT !.metadata = "ok"]
  /\ UNCHANGED system

ReportDetail ==
  /\ df.stage = "reports"
  /\ \E rows \in RowsParameters :
       df' = [df EXCEPT !.rows = rows, !.resp = report_detail(df.detalle, rows)]
  /\ UNCHANGED system

ReportSeason ==
  /\ df.stage = "reports"
  /\ df' = [df EXCEPT !.rows = 0, !.resp = report_season(df.temporada)]
  /\ UNCHANGED system

ModelVersion ==
  /\ df.stage = "reports"
  /\ df' = [df EXCEPT !.rows = 0, !.resp = model_version([st |-> df.metadata])]
  /\ UNCHANGED system

ReportsNext == ExportFile \/ ReportDetail \/ ReportSeason \/ ModelVersion

ReportsSpec == ReportsInit /\ [][ReportsNext]_vars

\* C23: GET /reports/detail?rows=k over a CSV of N rows returns as data the
\* first min(k, N) rows of the file in file order, and the rows field of the
\* response equals the number of rows in data, for every integer k.
C23_DetailFirstRows ==
  [][(ReportDetail /\ df'.resp.status = "200") =>
       LET N == Len(df.detalle.rows)
           k == df'.rows
       IN /\ df'.resp.body.data = [i \in 1..Min(k, N) |-> df.detalle.rows[i]]
          /\ df'.resp.body.rows = Len(df'.resp.body.data)]_vars

\* C24: absence of backing data is a distinct 404: GET /model/version answers
\* 404 when the metadata file is absent, GET /reports/detail and GET
\* /reports/season answer 404 when their CSV is absent, and each answers 200
\* only when its backing file exists.
C24_AbsentFileIs404 ==
  [][(ReportDetail \/ ReportSeason \/ ModelVersion) =>
       LET file == IF df'.resp.endpoint = "detail" THEN df.detalle.st
                   ELSE IF df'.resp.endpoint = "season" THEN df.temporada.st
                   ELSE df.metadata
       IN /\ file = "absent" => df'.resp.status = "404"
          /\ df'.resp.status = "200" => file # "absent"]_vars

\* C24's case: the seasonal report was asked for while its file was absent
\* and answered 404, with the detail file in place.
C24_Witness ==
  /\ df.stage = "reports" /\ df.resp.endpoint = "season"
  /\ df.temporada.st = "absent" /\ df.resp.status = "404"
  /\ df.detalle.st = "ok"

\* ---------------------------------------------------------------------------
\* Registry and activation, continued.
\* ---------------------------------------------------------------------------

\* Run r completes the write of its registry: the run has succeeded.
TrainSucceeds(r) == train[r].pc = "saving" /\ train'[r].pc = "done"

\* C25: a training run that succeeds appends exactly one new entry at the end
\* of the registry's version sequence, keeps all earlier entries in their
\* order, and sets current to the new entry's version; the new entry's
\* model_path names the versioned artifact written by that run.  The earlier
\* entries are those the registry file held when the run began to write it.
C25_TrainingAppendsOneEntry ==
  [][\A r \in Runs :
       TrainSucceeds(r) =>
         LET earlier == train_load_registry(train[r].prior).versions
         IN /\ meta'.st = "ok"
            /\ meta'.versions = Append(earlier, Entry(train[r].version))
            /\ meta'.current = train[r].version
            /\ files'[meta'.versions[Len(meta'.versions)].model_path]
                 = Dumped(Pipeline(r))]_vars

\* Nothing is under way, and every training run, rollback command and
\* activation whose outcome is on record has succeeded.
AllSucceeded ==
  /\ \A r \in Runs : train[r].pc \in {"idle", "done"} /\ train[r].at \in {"none", "saved"}
  /\ \A h \in ActThreads : act[h].pc = "idle" /\ act[h].resp \in {"none", "activated"}
  /\ cli.pc = "idle" /\ cli.result \in {"none", "True"}

\* C26: the legacy file models/modelo_demanda_v1.joblib is kept as the active
\* version: after any sequence of successful training runs, CLI rollbacks and
\* API activations its content equals the artifact of the registry's current
\* version.
C26_LegacyFileIsCurrent ==
  (AllSucceeded /\ meta.st = "ok" /\ Match(meta.versions, meta.current) # 0) =>
    files[MODEL_PATH] = files[meta.versions[Match(meta.versions, meta.current)].model_path]

\* Handler h answers 'activated'.
ActivateSucceeds(h) ==
  act[h].pc = "assign" /\ act'[h].pc = "idle" /\ act'[h].resp = "activated"

\* The rollback tool's set_current returns True.
CliSucceeds == cli.pc = "saving" /\ cli'.pc = "idle" /\ cli'.result = "True"

\* C27: a set_current that reports success (POST /model/activate answering
\* 'activated', or rollback set_current returning True) leaves the persisted
\* registry with current equal to the requested version and with the versions
\* sequence exactly as it was before the call.
C27_SetCurrentFrame ==
  [][/\ \A h \in ActThreads :
          ActivateSucceeds(h) =>
            /\ api_load_registry(meta').current = act[h].version
            /\ api_load_registry(meta').versions = act[h].registry.versions
     /\ CliSucceeds =>
          /\ api_load_registry(meta').current = cli.target
          /\ api_load_registry(meta').versions = cli.registry.versions]_vars

\* Handler h answers 500: nothing could be loaded.
ActivateAnswers500(h) ==
  act[h].pc = "assign" /\ act'[h].pc = "idle" /\ act'[h].resp = "500"

\* C30: a POST /model/activate that is answered with 500 (the model could not
\* be loaded) leaves the persisted registry's current pointer as it was before
\* the request, that is, as the registry file held it when the handler began
\* to write.
C30_Failed500KeepsCurrent ==
  [][\A h \in ActThreads :
       ActivateAnswers500(h) =>
         api_load_registry(meta').current = api_load_registry(act[h].prior).current]_vars

\* ---------------------------------------------------------------------------
\* Concurrent activations: two worker threads of the serving process handle
\* POST /model/activate while no training run and no rollback is under way and
\* the disk does not fail.
\* ---------------------------------------------------------------------------

Handlers == {"t1", "t2"}

\* A deployment after two completed training runs, in seconds 1 and 2, with
\* the serving process started: both artifacts and the legacy file are in
\* place, the registry names version 2, and that model is loaded.
Deployed ==
  /\ clock = 2
  /\ meta = Written(AppendEntry(AppendEntry(EmptyRegistry, 1), 2))
  /\ files = [p \in Paths |-> IF p = 1 THEN Dumped(Pipeline(0))
                              ELSE IF p \in {2, MODEL_PATH} THEN Dumped(Pipeline(1))
                              ELSE NoFile]
  /\ seen = [ids |-> {1, 2}, pairs |-> {<<1, 2>>}]
  /\ MODEL = Pipeline(1)
  /\ api = "up"

ActivationsInit ==
  /\ Deployed
  /\ train = [r \in Runs |-> IdleTrain]
  /\ act = [h \in Handlers |-> IdleAct]
  /\ rel = IdleRel
  /\ pred = IdlePred
  /\ requests = 0
  /\ cli = IdleCli
  /\ df = NoTable

ActivationsNext ==
  \E h \in Handlers :
    \/ \E version \in Versions : ActivateLookup(h, version)
    \/ ActivateSaveOpen(h)
    \/ ActivateSaveWrite(h)
    \/ ActivateLoad(h)
    \/ ActivateAssign(h)

ActivationsSpec == ActivationsInit /\ [][ActivationsNext]_vars

\* The artifact of the version the persisted registry names as current.
CurrentArtifact ==
  LET registry == api_load_registry(meta)
  IN NamedArtifact(registry, registry.current, files)

\* C28: quiescent consistency of concurrent activations: for every
\* interleaving of two or more POST /model/activate requests for different
\* loadable versions, with no training run in between, once all of them have
\* completed the in-memory model is the artifact of the version the persisted
\* registry names as current.
C28_ActivationsQuiescent ==
  (/\ \A h \in DOMAIN act : act[h].pc = "idle" /\ act[h].resp = "activated"
   /\ \A h, g \in DOMAIN act : h # g => act[h].version # act[g].version)
    => MODEL = CurrentArtifact

\* The columns of table t labelled name.
Labelled(t, name) == {i \in 1..Len(t) : t[i].name = name}

\* C29: after /predict's column normalization each canonical name ('Store
\* ID', 'Product ID', 'Units Sold') labels exactly one column of the table
\* handed to the feature deriver, for every set of column names in the
\* request, including requests that carry several synonyms of the same
\* canonical name.
C29_CanonicalColumnsUnique ==
  df.stage = "normalized" =>
    \A c \in Canonical : Cardinality(Labelled(df.t, c)) = 1

====
